---------------------------- MODULE Spec2Model ----------------------------
(***************************************************************************)
(* Model of the Taiwan-stock screening engine of changjy1975/shortsell:    *)
(*   src/app.py       get_stock_tickers, analyze_stock, the scan handler   *)
(*   src/strategy.py  analyze_short_opportunity                            *)
(*                                                                         *)
(* Prices and volumes are integers.  A rolling mean is kept as the sum of  *)
(* its window and every comparison against a mean or a ratio is made by    *)
(* cross-multiplication, which agrees with IEEE double arithmetic on the   *)
(* integer inputs used here (all sums are exact, and the thresholds 0.05,  *)
(* 0.07 and 0.098 are hit exactly only where the correctly rounded         *)
(* quotient equals the literal).  Closes, opens and volumes are            *)
(* non-negative; NaN marks a missing value.                                *)
(*                                                                         *)
(* Strings of the source that are not ASCII are transliterated:            *)
(*   mode "short" = trade_mode[:2] of the Short choice, "long" = the other *)
(*   po5MA, shouHeiK, gaoGuaiLi, liangZengDie      the short-mode tags     *)
(*   tuPo5MA, shouHongK, dieShenFanTan, liangZengZhang   the long-mode tags*)
(***************************************************************************)
EXTENDS Integers, Sequences, FiniteSets, TLC

(***************************************************************************)
(* Bounds of the model                                                     *)
(***************************************************************************)
\* longest run of identical sessions a generated frame starts with
MaxPad == 19
\* longest free tail of sessions a generated frame ends with
MaxTail == 2
\* largest universe get_stock_tickers returns
MaxTickers == 2

(***************************************************************************)
(* Program constants                                                       *)
(***************************************************************************)
VOL_THRESHOLD == 3000000
MIN_PRICE == 20
MIN_SESSIONS == 20
ROUND_LOT == 1000
NaN == -1

Modes == {"short", "long"}
\* st.sidebar.slider("...", 1, 5, 3)
MinScores == 1..5

(***************************************************************************)
(* Frames: what yf.download hands back for one identifier                  *)
(***************************************************************************)
Bar(o, c, v) == [Open |-> o, Close |-> c, Volume |-> v]

\* fast_data[t] / detail_data[t] raising KeyError: the identifier is absent
Omitted == [kind |-> "omitted", hasClose |-> FALSE, rows |-> <<>>]
Frame(rows) == [kind |-> "frame", hasClose |-> TRUE, rows |-> rows]
\* a DataFrame without a 'Close' column
NoCloseFrame == [kind |-> "frame", hasClose |-> FALSE, rows |-> <<>>]

IsNaN(x) == x = NaN
IsComplete(b) == ~IsNaN(b.Open) /\ ~IsNaN(b.Close) /\ ~IsNaN(b.Volume)

\* DataFrame.dropna(): every row holding a missing value is removed
dropna(rows) == SelectSeq(rows, IsComplete)

\* comparisons of floats: any comparison with NaN is False
Lt(a, b) == ~IsNaN(a) /\ ~IsNaN(b) /\ a < b

RECURSIVE SumCol(_, _, _, _)
SumCol(rows, col, from, to) ==
    IF from > to THEN 0
    ELSE (IF col = "Close" THEN rows[from].Close ELSE rows[from].Volume)
         + SumCol(rows, col, from + 1, to)

RECURSIVE AnyNaN(_, _, _, _)
AnyNaN(rows, col, from, to) ==
    IF from > to THEN FALSE
    ELSE IsNaN(IF col = "Close" THEN rows[from].Close ELSE rows[from].Volume)
         \/ AnyNaN(rows, col, from + 1, to)

\* df[col].rolling(n).mean().iloc[at]: NaN unless the window of n rows ending
\* at row `at` exists and holds no NaN; otherwise sum / n
RollingMean(rows, col, n, at) ==
    IF at < n \/ at > Len(rows) \/ AnyNaN(rows, col, at - n + 1, at)
    THEN [nan |-> TRUE, sum |-> 0, n |-> n]
    ELSE [nan |-> FALSE, sum |-> SumCol(rows, col, at - n + 1, at), n |-> n]

\* x < mean, x > mean, mean1 < mean2 (same window length)
LtMean(x, m) == ~IsNaN(x) /\ ~m.nan /\ x * m.n < m.sum
GtMean(x, m) == ~IsNaN(x) /\ ~m.nan /\ x * m.n > m.sum
MeanLt(m1, m2) == ~m1.nan /\ ~m2.nan /\ m1.sum < m2.sum

\* (a - b) / b on numpy float64 scalars, b = den/scale: no exception on a zero
\* divisor, the quotient is inf, -inf or nan
Ratio(num, den) ==
    IF den # 0 THEN [kind |-> "num", num |-> num, den |-> den]
    ELSE IF num > 0 THEN [kind |-> "inf", num |-> 0, den |-> 1]
    ELSE IF num < 0 THEN [kind |-> "-inf", num |-> 0, den |-> 1]
    ELSE [kind |-> "nan", num |-> 0, den |-> 1]
NaNRatio == [kind |-> "nan", num |-> 0, den |-> 1]

\* bias = (close - ma20) / ma20
Bias(close, ma20) ==
    IF IsNaN(close) \/ ma20.nan THEN NaNRatio
    ELSE Ratio(close * ma20.n - ma20.sum, ma20.sum)

\* (curr - prev) / prev
PctChange(curr, prev) ==
    IF IsNaN(curr) \/ IsNaN(prev) THEN NaNRatio ELSE Ratio(curr - prev, prev)

\* ratio > p/q and ratio < -p/q, for a ratio whose denominator is not negative
RatioGt(r, p, q) ==
    \/ r.kind = "inf"
    \/ r.kind = "num" /\ r.num * q > p * r.den
RatioLtNeg(r, p, q) ==
    \/ r.kind = "-inf"
    \/ r.kind = "num" /\ r.num * q < -(p * r.den)

None == [kind |-> "None"]

(***************************************************************************)
(* src/app.py: analyze_stock                                               *)
(***************************************************************************)
Tag(cond, name) == IF cond THEN <<name>> ELSE <<>>
Pts(cond, w) == IF cond THEN w ELSE 0

\* a wrong weight for the deviation rule
ShortRulesFlatWeight(curr, prev, ma5, vol_ma5, bias) ==
    [score |-> Pts(LtMean(curr.Close, ma5), 1)
               + Pts(curr.Close < curr.Open, 1)
               + Pts(RatioGt(bias, 5, 100), 1)
               + Pts(curr.Close < prev.Close /\ GtMean(curr.Volume, vol_ma5), 1),
     reasons |-> Tag(LtMean(curr.Close, ma5), "po5MA")
                 \o Tag(curr.Close < curr.Open, "shouHeiK")
                 \o Tag(RatioGt(bias, 5, 100), "gaoGuaiLi")
                 \o Tag(curr.Close < prev.Close /\ GtMean(curr.Volume, vol_ma5),
                        "liangZengDie")]

\* lines 45-49: the four short-mode rules, in evaluation order
ShortRules(curr, prev, ma5, vol_ma5, bias) ==
    [score |-> Pts(LtMean(curr.Close, ma5), 1)
               + Pts(curr.Close < curr.Open, 1)
               + Pts(RatioGt(bias, 5, 100), 2)
               + Pts(curr.Close < prev.Close /\ GtMean(curr.Volume, vol_ma5), 1),
     reasons |-> Tag(LtMean(curr.Close, ma5), "po5MA")
                 \o Tag(curr.Close < curr.Open, "shouHeiK")
                 \o Tag(RatioGt(bias, 5, 100), "gaoGuaiLi")
                 \o Tag(curr.Close < prev.Close /\ GtMean(curr.Volume, vol_ma5),
                        "liangZengDie")]

\* lines 50-54: the four long-mode rules
LongRules(curr, prev, ma5, vol_ma5, bias) ==
    [score |-> Pts(GtMean(curr.Close, ma5), 1)
               + Pts(curr.Close > curr.Open, 1)
               + Pts(RatioLtNeg(bias, 5, 100), 2)
               + Pts(curr.Close > prev.Close /\ GtMean(curr.Volume, vol_ma5), 1),
     reasons |-> Tag(GtMean(curr.Close, ma5), "tuPo5MA")
                 \o Tag(curr.Close > curr.Open, "shouHongK")
                 \o Tag(RatioLtNeg(bias, 5, 100), "dieShenFanTan")
                 \o Tag(curr.Close > prev.Close /\ GtMean(curr.Volume, vol_ma5),
                        "liangZengZhang")]

\* the dict of lines 57-62; the percentage strings are kept as the ratios
\* they are formatted from
CandidateResult(ticker, curr, prev, rules, bias) ==
    [kind |-> "result", ticker |-> ticker, close |-> curr.Close,
     pct |-> PctChange(curr.Close, prev.Close),
     score |-> rules.score, reasons |-> rules.reasons,
     bias |-> bias, lots |-> curr.Volume \div ROUND_LOT]

analyze_stock(ticker, df, mode) ==
    IF df.kind # "frame" \/ ~df.hasClose THEN None
    ELSE
      LET data == dropna(df.rows) IN
      IF Len(data) < MIN_SESSIONS THEN None
      ELSE
        LET n == Len(data)
            curr == data[n]
            prev == data[n - 1]
            ma5 == RollingMean(data, "Close", 5, n)
            ma20 == RollingMean(data, "Close", 20, n)
            vol_ma5 == RollingMean(data, "Volume", 5, n)
            bias == Bias(curr.Close, ma20)
            rules == IF mode = "short"
                     THEN ShortRules(curr, prev, ma5, vol_ma5, bias)
                     ELSE LongRules(curr, prev, ma5, vol_ma5, bias)
        IN IF rules.score > 0
           THEN CandidateResult(ticker, curr, prev, rules, bias)
           ELSE None

(***************************************************************************)
(* src/strategy.py: analyze_short_opportunity                              *)
(***************************************************************************)
\* the frame is used as given: no dropna, no guard on the divisions
analyze_short_opportunity(ticker, df) ==
    IF Len(df.rows) < MIN_SESSIONS THEN None
    ELSE
      LET rows == df.rows
          n == Len(rows)
          last_close == rows[n].Close
          prev_close == rows[n - 1].Close
          ma5 == RollingMean(rows, "Close", 5, n)
          ma5_prev == RollingMean(rows, "Close", 5, n - 1)
          ma20 == RollingMean(rows, "Close", 20, n)
          volume_ma5 == RollingMean(rows, "Volume", 5, n)
          bias == Bias(last_close, ma20)
          score == Pts(LtMean(last_close, ma5), 1)
                   + Pts(MeanLt(ma5, ma5_prev), 1)
                   + Pts(Lt(last_close, prev_close)
                         /\ GtMean(rows[n].Volume, volume_ma5), 1)
                   + Pts(RatioGt(bias, 7, 100) /\ Lt(last_close, rows[n].Open), 2)
      IN [kind |-> "result", ticker |-> ticker, close |-> last_close,
          score |-> score, bias |-> bias]

(***************************************************************************)
(* src/app.py: the pre-filter of the scan handler, for one identifier      *)
(***************************************************************************)
\* a limit test that forgets the equality case
is_limit_up_strict(last_close, prev_close) ==
    1000 * (last_close - prev_close) > 98 * prev_close

\* line 100, for prev_close > 0: (last_close - prev_close) / prev_close >= 0.098
is_limit_up(last_close, prev_close) ==
    1000 * (last_close - prev_close) >= 98 * prev_close

\* lines 96-105: TRUE exactly when t is appended to qualified_tickers.
\* KeyError (identifier or column absent), IndexError (one row only) and
\* ZeroDivisionError (prev_close = 0, Python floats) are swallowed by the
\* except clause.
Qualifies(resp, mode) ==
    IF resp.kind # "frame" THEN FALSE
    ELSE
      LET temp_df == dropna(resp.rows) IN
      IF temp_df = <<>> THEN FALSE
      ELSE IF ~resp.hasClose THEN FALSE
      ELSE IF Len(temp_df) < 2 THEN FALSE
      ELSE
        LET last_close == temp_df[Len(temp_df)].Close
            prev_close == temp_df[Len(temp_df) - 1].Close
            last_vol == temp_df[Len(temp_df)].Volume
        IN IF prev_close = 0 THEN FALSE
           ELSE /\ last_vol >= VOL_THRESHOLD
                /\ last_close > MIN_PRICE
                /\ ~(mode = "short" /\ is_limit_up(last_close, prev_close))

(***************************************************************************)
(* Inputs                                                                  *)
(***************************************************************************)
BaseBars == {Bar(10, 10, 3000000), Bar(1, 0, 3000000), Bar(500, 500, 3000000)}

TailBars == {Bar(60, 50, 4000000), Bar(200, 200, 3000000),
             Bar(20, 20, 3000000), Bar(21, 21, 2999999),
             Bar(1, 0, 4000000), Bar(1, 1, 3000000), Bar(5, 8, 5000000),
             Bar(500, 549, 4000000), Bar(500, 548, 4000000),
             Bar(NaN, NaN, NaN), Bar(21, NaN, 1000)}

Pad(b, n) == [i \in 1..n |-> b]
PadLens == {0} \cup {n \in (MaxPad - 2)..MaxPad : n >= 0}
Tails == UNION {[1..k -> TailBars] : k \in 0..MaxTail}

\* frames handed to the scorers and to the pre-filter one at a time
InputFrames ==
    {Frame(Pad(b, n) \o t) : b \in BaseBars, n \in PadLens, t \in Tails}
    \cup {NoCloseFrame, Omitted}

\* the universe: identifiers as get_stock_tickers builds them (code + suffix)
Tickers == <<"2330.TW", "2317.TW", "2454.TW", "2308.TW">>
TickerSet == {Tickers[i] : i \in 1..Len(Tickers)}
Universes == {SubSeq(Tickers, 1, k) : k \in 0..MaxTickers}

\* period="3d" answers of the gateway for one identifier
FastPass == Frame(<<Bar(50, 50, 4000000), Bar(60, 50, 4000000)>>)
FastLimitUp == Frame(<<Bar(500, 500, 4000000), Bar(500, 549, 4000000)>>)
FastLowVolume == Frame(<<Bar(50, 50, 4000000), Bar(60, 50, 2999999)>>)
FastNoData == Frame(<<Bar(NaN, NaN, NaN), Bar(NaN, NaN, NaN)>>)
FastOneRow == Frame(<<Bar(60, 50, 4000000)>>)
FastResponses == {FastPass, FastLimitUp, FastLowVolume, FastNoData, FastOneRow,
                  NoCloseFrame, Omitted}

\* period="1mo" answers of the gateway for one identifier
DetailFive ==
    Frame(Pad(Bar(10, 10, 3000000), 18)
          \o <<Bar(200, 200, 3000000), Bar(60, 50, 4000000)>>)
DetailThree == Frame(Pad(Bar(10, 10, 3000000), 19) \o <<Bar(60, 50, 4000000)>>)
DetailOne == Frame(Pad(Bar(10, 10, 3000000), 19) \o <<Bar(11, 10, 3000000)>>)
DetailTooShort == Frame(Pad(Bar(10, 10, 3000000), 10))
DetailResponses == {DetailFive, DetailThree, DetailOne, DetailTooShort,
                    NoCloseFrame, Omitted}

NotFetched == [kind |-> "none", hasClose |-> FALSE, rows |-> <<>>]

(***************************************************************************)
(* State                                                                   *)
(***************************************************************************)
VARIABLES
    pc,                 \* position in the scan handler
    status,             \* label state of st.status
    exc,                \* exception that left the handler, if any
    trade_mode,         \* sidebar: "short" or "long"
    min_score,          \* sidebar: 1..5
    all_tickers,        \* result of get_stock_tickers
    fast_data,          \* first download, per identifier
    qualified_tickers,  \* survivors of the pre-filter
    idx,                \* loop position
    detail_data,        \* second download, per identifier
    results,            \* dicts appended by the detail loop
    final_df,           \* the sorted table
    downloads,          \* number of yf.download calls made
    in_df, in_mode,     \* arguments of a direct call of a function
    called, out, out_q  \* the function called and what it returned

scanVars == <<pc, status, exc, trade_mode, min_score, all_tickers, fast_data,
              qualified_tickers, idx, detail_data, results, final_df, downloads>>
callVars == <<in_df, in_mode, called, out, out_q>>
vars == <<scanVars, callVars>>

ScanIdle ==
    /\ pc = "idle"
    /\ status = "none"
    /\ exc = "none"
    /\ all_tickers = <<>>
    /\ fast_data = [t \in TickerSet |-> NotFetched]
    /\ qualified_tickers = <<>>
    /\ idx = 0
    /\ detail_data = [t \in TickerSet |-> NotFetched]
    /\ results = <<>>
    /\ final_df = <<>>
    /\ downloads = 0

CallIdle ==
    /\ called = "none"
    /\ out = None
    /\ out_q = FALSE

(***************************************************************************)
(* Direct calls of the three functions on one frame                        *)
(***************************************************************************)
InitCall ==
    /\ ScanIdle
    /\ trade_mode = "short"
    /\ min_score = 3
    /\ CallIdle
    /\ in_df \in InputFrames
    /\ in_mode \in Modes

CallAnalyzeStock ==
    /\ called = "none"
    /\ in_df.kind = "frame"
    /\ called' = "analyze_stock"
    /\ out' = analyze_stock(Tickers[1], in_df, in_mode)
    /\ UNCHANGED <<in_df, in_mode, out_q, scanVars>>

CallAnalyzeShortOpportunity ==
    /\ called = "none"
    /\ in_df.kind = "frame"
    /\ called' = "analyze_short_opportunity"
    /\ out' = analyze_short_opportunity(Tickers[1], in_df)
    /\ UNCHANGED <<in_df, in_mode, out_q, scanVars>>

CallPrefilter ==
    /\ called = "none"
    /\ called' = "prefilter"
    /\ out_q' = Qualifies(in_df, in_mode)
    /\ UNCHANGED <<in_df, in_mode, out, scanVars>>

NextCall == CallAnalyzeStock \/ CallAnalyzeShortOpportunity \/ CallPrefilter

SpecCall == InitCall /\ [][NextCall]_vars

(***************************************************************************)
(* Claims about the functions, checked under SpecCall                      *)
(***************************************************************************)
Last(seq) == seq[Len(seq)]
CompleteRows == dropna(in_df.rows)
ScorerCalled == called \in {"analyze_stock", "analyze_short_opportunity"}

\* C1: a series with fewer than 20 complete sessions (rows with a missing
\* value not counted) gets no result from either scorer, analyze_stock or
\* analyze_short_opportunity.
C1_FewSessionsNoResult ==
    (ScorerCalled /\ Len(CompleteRows) < MIN_SESSIONS) => out = None

Weight(tag) == IF tag \in {"gaoGuaiLi", "dieShenFanTan"} THEN 2 ELSE 1
RECURSIVE SumWeights(_)
SumWeights(tags) ==
    IF tags = <<>> THEN 0 ELSE Weight(Head(tags)) + SumWeights(Tail(tags))

\* the four short-mode conditions, read off the complete rows of the input
AllFourShort ==
    LET d == CompleteRows
        n == Len(d)
    IN /\ in_df.hasClose
       /\ n >= MIN_SESSIONS
       /\ 5 * d[n].Close < SumCol(d, "Close", n - 4, n)
       /\ d[n].Close < d[n].Open
       /\ SumCol(d, "Close", n - 19, n) > 0
       /\ 400 * d[n].Close > 21 * SumCol(d, "Close", n - 19, n)
       /\ d[n].Close < d[n - 1].Close
       /\ 5 * d[n].Volume > SumCol(d, "Volume", n - 4, n)

\* C2: in short mode, when close < ma5, close < open, deviation > 0.05 and
\* close < previous close with volume > volMA5, analyze_stock returns score 5
\* with the four short tags in rule order; and every result's score is the
\* sum of the weights of its tags and at most 5.
C2_ScoreIsSumOfFiredRules ==
    called = "analyze_stock" =>
        /\ out.kind = "result" =>
               /\ out.score = SumWeights(out.reasons)
               /\ out.score <= 5
        /\ (in_mode = "short" /\ AllFourShort) =>
               /\ out.kind = "result"
               /\ out.score = 5
               /\ out.reasons = <<"po5MA", "shouHeiK", "gaoGuaiLi", "liangZengDie">>

C2_Witness ==
    /\ called = "analyze_stock"
    /\ in_mode = "short"
    /\ AllFourShort
    /\ out.kind = "result"
    /\ out.score = 5

\* a zero baseline of one of the two ratios: ma20 = 0 or previous close = 0
ZeroBaseline ==
    LET d == CompleteRows
        n == Len(d)
    IN /\ in_df.hasClose
       /\ n >= MIN_SESSIONS
       /\ \/ SumCol(d, "Close", n - 19, n) = 0
          \/ d[n - 1].Close = 0

\* C3: analyze_stock returns no result, in either mode, for a series of at
\* least 20 sessions whose ma20 is exactly 0 or whose previous close is 0.
C3_ZeroBaselineNoResult ==
    (called = "analyze_stock" /\ ZeroBaseline) => out = None

\* the frame has two complete latest sessions, enough volume and no
\* limit move: only the price test is left to decide
OnlyPriceDecides ==
    LET r == in_df.rows
        n == Len(r)
    IN /\ in_df.kind = "frame" /\ in_df.hasClose
       /\ n >= 2
       /\ IsComplete(r[n]) /\ IsComplete(r[n - 1])
       /\ r[n].Volume >= VOL_THRESHOLD
       /\ r[n - 1].Close > 0
       /\ 1000 * (r[n].Close - r[n - 1].Close) < 98 * r[n - 1].Close

\* C9: the price test of the pre-filter rejects exactly when the latest close
\* is strictly below 20; an instrument closing at exactly 20 is kept.
C9_PriceTestRejectsOnlyBelow ==
    (called = "prefilter" /\ OnlyPriceDecides) =>
        (out_q <=> ~(Last(in_df.rows).Close < MIN_PRICE))

\* the short series is empty, has fewer than two sessions, or its most recent
\* session lacks close or volume
UnusableShortSeries ==
    \/ in_df.kind # "frame"
    \/ Len(in_df.rows) < 2
    \/ IsNaN(Last(in_df.rows).Close)
    \/ IsNaN(Last(in_df.rows).Volume)

\* C10: the pre-filter rejects every instrument whose short series is empty,
\* has fewer than two sessions, or whose most recent session is missing close
\* or volume; an earlier session never stands in for the most recent one.
C10_MissingLatestSessionRejected ==
    (called = "prefilter" /\ UnusableShortSeries) => ~out_q

(***************************************************************************)
(* src/app.py: the scan handler (lines 77-142)                             *)
(***************************************************************************)
\* a universe check that lets an empty list through
UniverseUsableAlways(tickers) == TRUE

\* line 83: `if not all_tickers` stops the scan
UniverseUsable(tickers) == tickers # <<>>

\* a frame is what the handler reads for t: fast_data[t] when several
\* identifiers were asked for, the whole answer when only one was
AnswersFor(tickers, responses) ==
    {d \in [TickerSet -> responses \cup {NotFetched}] :
        \A t \in TickerSet :
            IF \E i \in 1..Len(tickers) : tickers[i] = t
            THEN /\ d[t] # NotFetched
                 /\ Len(tickers) = 1 => d[t].kind = "frame"
            ELSE d[t] = NotFetched}

Range(seq) == {seq[i] : i \in 1..Len(seq)}

\* DataFrame.sort_values(by=score, ascending=False) with the default
\* kind='quicksort', which is not a stable sort: rows of equal score come out
\* in an order the library does not fix
sort_values(rs) ==
    {[i \in 1..Len(rs) |-> rs[f[i]]] :
        f \in {g \in [1..Len(rs) -> 1..Len(rs)] :
                  /\ \A i, j \in 1..Len(rs) : i # j => g[i] # g[j]
                  /\ \A i \in 1..(Len(rs) - 1) :
                         rs[g[i]].score >= rs[g[i + 1]].score}}

InitScan ==
    /\ ScanIdle
    /\ trade_mode \in Modes
    /\ min_score \in MinScores
    /\ CallIdle
    /\ in_df = NotFetched
    /\ in_mode = "short"

\* lines 80-85: the universe is fetched; an empty one ends the scan
ClickScan ==
    /\ pc = "idle"
    /\ \E u \in Universes :
        /\ all_tickers' = u
        /\ IF UniverseUsable(u)
           THEN pc' = "fetch1" /\ status' = "scanning"
           ELSE pc' = "stopped" /\ status' = "list_failed"
    /\ UNCHANGED <<exc, trade_mode, min_score, fast_data, qualified_tickers, idx,
                   detail_data, results, final_df, downloads, callVars>>

\* lines 88-92: the first download raises
FetchFastRaises ==
    /\ pc = "fetch1"
    /\ downloads' = downloads + 1
    /\ status' = "download_failed"
    /\ pc' = "stopped"
    /\ UNCHANGED <<exc, trade_mode, min_score, all_tickers, fast_data,
                   qualified_tickers, idx, detail_data, results, final_df, callVars>>

\* lines 89, 94: the first download answers
FetchFast ==
    /\ pc = "fetch1"
    /\ downloads' = downloads + 1
    /\ fast_data' \in AnswersFor(all_tickers, FastResponses)
    /\ qualified_tickers' = <<>>
    /\ idx' = 1
    /\ pc' = "prefilter"
    /\ UNCHANGED <<status, exc, trade_mode, min_score, all_tickers, detail_data,
                   results, final_df, callVars>>

\* lines 95-110 and 140-142: one turn of the pre-filter loop; after the last
\* one the handler goes on to the second download or reports no liquidity
PrefilterStep ==
    /\ pc = "prefilter"
    /\ LET t == all_tickers[idx]
           q == IF Qualifies(fast_data[t], trade_mode)
                THEN Append(qualified_tickers, t)
                ELSE qualified_tickers
       IN /\ qualified_tickers' = q
          /\ IF idx < Len(all_tickers)
             THEN idx' = idx + 1 /\ pc' = "prefilter" /\ status' = status
             ELSE /\ idx' = 0
                  /\ IF q # <<>>
                     THEN pc' = "fetch2" /\ status' = status
                     ELSE pc' = "done" /\ status' = "liquidity"
    /\ UNCHANGED <<exc, trade_mode, min_score, all_tickers, fast_data, detail_data,
                   results, final_df, downloads, callVars>>

\* line 112: the second download raises; nothing catches it
FetchDetailRaises ==
    /\ pc = "fetch2"
    /\ downloads' = downloads + 1
    /\ exc' = "DownloadError"
    /\ pc' = "crashed"
    /\ UNCHANGED <<status, trade_mode, min_score, all_tickers, fast_data,
                   qualified_tickers, idx, detail_data, results, final_df, callVars>>

\* line 112: the second download answers
FetchDetail ==
    /\ pc = "fetch2"
    /\ downloads' = downloads + 1
    /\ detail_data' \in AnswersFor(qualified_tickers, DetailResponses)
    /\ idx' = 1
    /\ pc' = "score"
    /\ UNCHANGED <<status, exc, trade_mode, min_score, all_tickers, fast_data,
                   qualified_tickers, results, final_df, callVars>>

\* lines 115-125, 138-139: one turn of the detail loop.  detail_data[t] is
\* read outside any try: an absent identifier raises KeyError out of the
\* handler.  After the last turn the status is set and the table sorted.
ScoreStep ==
    /\ pc = "score"
    /\ LET t == qualified_tickers[idx]
           res == analyze_stock(t, detail_data[t], trade_mode)
           rs == IF res.kind = "result" /\ res.score >= min_score
                 THEN Append(results, res)
                 ELSE results
       IN IF detail_data[t].kind = "omitted"
          THEN /\ exc' = "KeyError"
               /\ pc' = "crashed"
               /\ UNCHANGED <<status, idx, results, final_df>>
          ELSE /\ results' = rs
               /\ exc' = exc
               /\ IF idx < Len(qualified_tickers)
                  THEN /\ idx' = idx + 1
                       /\ UNCHANGED <<pc, status, final_df>>
                  ELSE /\ idx' = 0
                       /\ status' = "complete"
                       /\ pc' = "done"
                       /\ final_df' \in sort_values(rs)
    /\ UNCHANGED <<trade_mode, min_score, all_tickers, fast_data,
                   qualified_tickers, detail_data, downloads, callVars>>

Next ==
    \/ ClickScan
    \/ FetchFastRaises
    \/ FetchFast
    \/ PrefilterStep
    \/ FetchDetailRaises
    \/ FetchDetail
    \/ ScoreStep

Spec == InitScan /\ [][Next]_vars

Terminal == pc \in {"done", "stopped", "crashed"}

(***************************************************************************)
(* Claims about the scan, checked under Spec                               *)
(***************************************************************************)
PrefilterFinished == pc \in {"fetch2", "score", "done", "crashed"}
FinalTickers == {final_df[i].ticker : i \in 1..Len(final_df)}
PosIn(seq, x) == CHOOSE k \in 1..Len(seq) : seq[k] = x

ScoreDescending ==
    \A i \in 1..(Len(final_df) - 1) : final_df[i].score >= final_df[i + 1].score

\* C4: the final table is ordered by score, highest first, and two candidates
\* of equal score appear in the order in which they were scored.
C4_RankingIsStable ==
    (pc = "done" /\ status = "complete") =>
        /\ ScoreDescending
        /\ \A i, j \in 1..Len(final_df) :
               (i < j /\ final_df[i].score = final_df[j].score) =>
                   PosIn(results, final_df[i]) < PosIn(results, final_df[j])

\* the instrument has two complete sessions, enough volume, a close above the
\* price floor, and closed at least 9.8% above its previous close
LimitUpLiquid(resp) ==
    LET d == dropna(resp.rows)
        n == Len(d)
    IN /\ resp.kind = "frame" /\ resp.hasClose
       /\ n >= 2
       /\ d[n].Volume >= VOL_THRESHOLD
       /\ d[n].Close > MIN_PRICE
       /\ d[n - 1].Close > 0
       /\ 1000 * (d[n].Close - d[n - 1].Close) >= 98 * d[n - 1].Close

\* C5: an instrument with enough volume and price whose latest close is at
\* least 9.8% above its previous close is left out of the survivors in short
\* mode and is among them in long mode.
C5_LimitUpExcludedOnlyWhenShort ==
    PrefilterFinished =>
        \A t \in Range(all_tickers) :
            LimitUpLiquid(fast_data[t]) =>
                (t \in Range(qualified_tickers) <=> trade_mode = "long")

C5_Witness ==
    /\ PrefilterFinished
    /\ trade_mode = "short"
    /\ \E t \in Range(all_tickers) :
           /\ LimitUpLiquid(fast_data[t])
           /\ t \notin Range(qualified_tickers)
    /\ qualified_tickers # <<>>

\* the volume of the latest session the pre-filter reads is under the threshold
LowVolume(resp) ==
    /\ resp.kind = "frame"
    /\ dropna(resp.rows) # <<>>
    /\ Last(dropna(resp.rows)).Volume < VOL_THRESHOLD

Reaches(t) ==
    LET r == analyze_stock(t, detail_data[t], trade_mode)
    IN r.kind = "result" /\ r.score >= min_score

\* C6: after a scan every entry of the final table is for a survivor of the
\* pre-filter and scores at least min_score; an instrument whose latest volume
\* is under the threshold is never in it; and when no instrument reaches
\* min_score the table is empty and the scan completes without error.
C6_ResultOnlySurvivorsAboveMinScore ==
    (pc \in {"done", "crashed"} /\ exc # "DownloadError") =>
        /\ \A i \in 1..Len(final_df) :
               /\ final_df[i].ticker \in Range(qualified_tickers)
               /\ Qualifies(fast_data[final_df[i].ticker], trade_mode)
               /\ final_df[i].score >= min_score
        /\ \A t \in Range(all_tickers) :
               LowVolume(fast_data[t]) => t \notin FinalTickers
        /\ (\A t \in Range(qualified_tickers) : ~Reaches(t)) =>
               /\ final_df = <<>>
               /\ pc = "done"
               /\ exc = "none"

\* C7: when the gateway leaves an identifier out of an answer, or answers
\* with data that cannot be used, in either stage, that identifier is dropped
\* silently and the scan still completes with every other identifier
\* pre-filtered, scored and ranked.
C7_InstrumentFailureNeverAborts ==
    (pc \in {"done", "crashed"} /\ exc # "DownloadError") =>
        /\ pc = "done"
        /\ exc = "none"
        /\ \A t \in Range(all_tickers) :
               t \in Range(qualified_tickers) <=> Qualifies(fast_data[t], trade_mode)
        /\ \A t \in Range(qualified_tickers) :
               t \in FinalTickers <=> Reaches(t)

\* C8: when the universe provider fails or returns nothing, the scan stops
\* with the list-failure status before any download or scoring; a scan that
\* ran and found no candidate never ends with that status.
C8_EmptyUniverseStopsBeforeFetch ==
    /\ (pc # "idle" /\ all_tickers = <<>>) =>
           /\ pc = "stopped"
           /\ status = "list_failed"
           /\ downloads = 0
           /\ qualified_tickers = <<>>
           /\ results = <<>>
           /\ final_df = <<>>
    /\ status = "list_failed" => (all_tickers = <<>> /\ downloads = 0)
    /\ (Terminal /\ downloads > 0) =>
           status \in {"download_failed", "liquidity", "complete", "scanning"}

C8_Witness ==
    /\ pc = "stopped"
    /\ status = "list_failed"
    /\ all_tickers = <<>>
    /\ downloads = 0

=============================================================================
